---- MODULE Spec2Model ----
(***************************************************************************)
(* A model of the ZIP container of src/src/adm-zip/zipFile.js: the entry   *)
(* list, the name table and the main (end) header, the mutation calls      *)
(* setEntry / deleteEntry / getEntryChildren, the two serializers          *)
(* compressToBuffer and toAsyncBuffer, and the end-record locator          *)
(* readMainHeader.                                                         *)
(*                                                                         *)
(* Strings are sequences of character codes, so that substr, toLowerCase   *)
(* and the < of JavaScript strings are computed and not assumed.  Entries  *)
(* are objects: an entry is named by its identity (its index in Pool), two *)
(* entries may carry the same entryName.                                   *)
(***************************************************************************)
EXTENDS Integers, Sequences, FiniteSets, TLC

(***************************************************************************)
(* Bounds of the model.                                                    *)
(***************************************************************************)
\* the longest entryList a setEntry call may produce
MaxLen == 3
\* the number of toAsyncBuffer calls that may be waiting for a callback
MaxCalls == 2
\* the longest list a directory is deleted from
MaxDirLen == 4
\* the number of entries a client creates for an archive it has opened
MaxNew == 1
\* a short buffer has at most ENDHDR + MaxPad bytes
MaxPad == 4
\* a long buffer has up to MaxOver bytes more than the end record and the
\* longest comment take
MaxOver == 1

(***************************************************************************)
(* Constants of the format (util/constants).                               *)
(***************************************************************************)
LOCHDR == 30
CENHDR == 46
ENDHDR == 22
\* "PK\005\006", 0x06054b50
ENDSIG == 101010256
ENDSUB == 8
ENDTOT == 10
ENDSIZ == 12
ENDOFF == 16
ENDCOM == 20
\* "PK\001\002", 0x02014b50
CENSIG == 33639248
CENCRC == 16
CENSIZ == 20
CENNAM == 28
CENEXT == 30
CENCOM == 32
CENOFF == 42
\* 0xFFFF, the longest archive comment
MAXCOMMENT == 65535
\* 0x50, "P"
CHARP == 80

(***************************************************************************)
(* The entries a client can hand to the container.  entryName is the       *)
(* sequence of character codes: 47 is "/", 100 "d", 115 "s", 97 "a",       *)
(* 69 "E".  Entries 3 and 4 are two objects with the same name; "E" sorts  *)
(* before "d/" by code unit and after it once lower-cased.                 *)
(* extra and comment are the lengths of the extra field and of the         *)
(* comment, data the length of the compressed payload, crc the CRC-32 of   *)
(* the header.                                                             *)
(***************************************************************************)
Pool ==
  << [entryName |-> <<100, 47>>,              extra |-> 0, comment |-> 0,
      data |-> 0, crc |-> 0],
     [entryName |-> <<100, 47, 115, 47>>,     extra |-> 0, comment |-> 0,
      data |-> 0, crc |-> 0],
     [entryName |-> <<100, 47, 115, 47, 97>>, extra |-> 2, comment |-> 0,
      data |-> 5, crc |-> 513],
     [entryName |-> <<100, 47, 115, 47, 97>>, extra |-> 0, comment |-> 1,
      data |-> 3, crc |-> 70000],
     [entryName |-> <<69>>,                   extra |-> 1, comment |-> 0,
      data |-> 7, crc |-> 9] >>

Entries == 1..Len(Pool)

Names == {Pool[e].entryName : e \in Entries}

\* `undefined`: what a table lookup yields for an absent key
Undefined == 0

VARIABLES
  heap,          \* the entry objects: heap[e] holds the fields of entry e
  entryList,     \* the ordered list of entries (identities)
  entryTable,    \* the table: a function from the bound names to entries
  mainHeader,    \* totalEntries, size, offset of the end record
  headerOffset,  \* entry.header.offset of every entry object
  calls,         \* the toAsyncBuffer calls: locals of each closure
  last,          \* the last call or callback that has returned: its name,
                 \* argument and result, and for a serializer the list and
                 \* the table when it started
  mutated,       \* some setEntry or deleteEntry call has completed
  inBuffer,      \* the buffer handed to the constructor
  opening        \* the constructor: position and locals of readMainHeader

entryNameOf(e) == heap[e].entryName

\* ZipEntry.isDirectory: the name ends with the path separator
isDirectory(e) ==
  LET name == entryNameOf(e)
  IN  Len(name) > 0 /\ name[Len(name)] = 47

(***************************************************************************)
(* JavaScript string and array primitives.                                 *)
(***************************************************************************)
Min(a, b) == IF a < b THEN a ELSE b
Max(a, b) == IF a > b THEN a ELSE b

\* String.prototype.substr(0, len)
substr0(s, len) == SubSeq(s, 1, Min(len, Len(s)))

LowerChar(c) == IF c >= 65 /\ c <= 90 THEN c + 32 ELSE c

\* String.prototype.toLowerCase
toLowerCase(s) == [i \in 1..Len(s) |-> LowerChar(s[i])]

\* a < b on strings: lexicographic on the code units
RECURSIVE StrLess(_, _)
StrLess(a, b) ==
  IF b = <<>> THEN FALSE
  ELSE IF a = <<>> THEN TRUE
  ELSE IF a[1] < b[1] THEN TRUE
  ELSE IF a[1] > b[1] THEN FALSE
  ELSE StrLess(Tail(a), Tail(b))

\* Array.prototype.indexOf, 0-based, -1 when absent (identity comparison)
RECURSIVE indexOfFrom(_, _, _)
indexOfFrom(list, x, i) ==
  IF i > Len(list) THEN -1
  ELSE IF list[i] = x THEN i - 1
  ELSE indexOfFrom(list, x, i + 1)

indexOf(list, x) == indexOfFrom(list, x, 1)

\* Array.prototype.splice(start, 1): a negative start counts from the end
splice1(list, start) ==
  LET len == Len(list)
      actualStart == IF start < 0 THEN Max(len + start, 0) ELSE Min(start, len)
      deleteCount == Min(1, len - actualStart)
  IN  SubSeq(list, 1, actualStart) \o SubSeq(list, actualStart + deleteCount + 1, len)

\* Array.prototype.sort(compare): a stable insertion sort driven by the
\* results compare[a, b] of the comparison function
sort(list, compare) ==
  LET insert(s, x) ==
        LET k == Cardinality({j \in 1..Len(s) : compare[s[j], x] <= 0})
        IN  SubSeq(s, 1, k) \o <<x>> \o SubSeq(s, k + 1, Len(s))
      sorted[i \in 0..Len(list)] ==
        IF i = 0 THEN <<>> ELSE insert(sorted[i - 1], list[i])
  IN  sorted[Len(list)]

(***************************************************************************)
(* The entry table.                                                        *)
(***************************************************************************)
\* entryTable[entryName]: the bound entry, or undefined
tableGet(table, entryName) ==
  IF entryName \in DOMAIN table THEN table[entryName] ELSE Undefined

\* entryTable[entryName] = entry
tablePut(table, entryName, entry) ==
  [k \in DOMAIN table \cup {entryName} |->
     IF k = entryName THEN entry ELSE table[k]]

\* delete entryTable[entryName]
tableDelete(table, entryName) ==
  [k \in DOMAIN table \ {entryName} |-> table[k]]

\* getEntry: the bound entry or null
getEntry(entryName) == tableGet(entryTable, entryName)

\* pushChildren leaving out the directory itself
RECURSIVE pushChildrenButSelf(_, _, _)
pushChildrenButSelf(list, name, acc) ==
  IF list = <<>> THEN acc
  ELSE LET zipEntry == Head(list)
       IN  pushChildrenButSelf(Tail(list), name,
             IF /\ substr0(entryNameOf(zipEntry), Len(name)) = name
                /\ entryNameOf(zipEntry) # name
             THEN Append(acc, zipEntry) ELSE acc)

\* getEntryChildren: the entries of the list whose name starts with the
\* name of the directory, in list order; nothing for a non-directory
RECURSIVE pushChildren(_, _, _)
pushChildren(list, name, acc) ==
  IF list = <<>> THEN acc
  ELSE LET zipEntry == Head(list)
       IN  pushChildren(Tail(list), name,
             IF substr0(entryNameOf(zipEntry), Len(name)) = name
             THEN Append(acc, zipEntry) ELSE acc)

getEntryChildren(list, entry) ==
  IF isDirectory(entry)
  THEN pushChildren(list, entryNameOf(entry), <<>>)
  ELSE <<>>

\* setEntry that puts entry in the place of the entry bound to its name
setEntryReplacing(st, entry) ==
  LET old == tableGet(st.table, entryNameOf(entry))
      list2 == IF old # Undefined /\ indexOf(st.list, old) >= 0
               THEN [st.list EXCEPT ![indexOf(st.list, old) + 1] = entry]
               ELSE Append(st.list, entry)
  IN  [list |-> list2,
       table |-> tablePut(st.table, entryNameOf(entry), entry),
       total |-> Len(list2)]

\* setEntry on the container state st = [list, table, total]
setEntry(st, entry) ==
  LET list2 == Append(st.list, entry)
  IN  [list |-> list2,
       table |-> tablePut(st.table, entryNameOf(entry), entry),
       total |-> Len(list2)]

\* deleteEntry on the container state st = [list, table, total]: a
\* directory first deletes, by name, every child of the snapshot that
\* getEntryChildren returned; then the entry found in the table is spliced
\* out of the list at indexOf(entry), which is -1 when the table has no
\* such key or the entry is no longer in the list
RECURSIVE deleteEntry(_, _)
RECURSIVE forEachChild(_, _, _)
forEachChild(st, children, entryName) ==
  IF children = <<>> THEN st
  ELSE LET child == Head(children)
           st1 == IF entryNameOf(child) # entryName
                  THEN deleteEntry(st, entryNameOf(child))
                  ELSE st
       IN  forEachChild(st1, Tail(children), entryName)

deleteEntry(st, entryName) ==
  LET entry == tableGet(st.table, entryName)
      st1 == IF entry # Undefined /\ isDirectory(entry)
             THEN forEachChild(st, getEntryChildren(st.list, entry), entryName)
             ELSE st
      list2 == splice1(st1.list, indexOf(st1.list, entry))
  IN  [list |-> list2,
       table |-> tableDelete(st1.table, entryName),
       total |-> Len(list2)]

(***************************************************************************)
(* Serialization.  A block of the output is a record: its kind, the entry  *)
(* it belongs to and its length in bytes; a central-directory header also  *)
(* carries the header.offset that packHeader encoded.                      *)
(***************************************************************************)
\* entry.header.dataHeaderToBinary().length
dataHeaderLength(entry) == LOCHDR

\* the post header: the raw name followed by the extra field
postHeaderLength(entry) == Len(entryNameOf(entry)) + heap[entry].extra

\* entry.getCompressedData().length
compressedLength(entry) == heap[entry].data

\* entry.packHeader().length
entryHeaderLength(entry) ==
  CENHDR + Len(entryNameOf(entry)) + heap[entry].extra + heap[entry].comment

\* mainHeader.mainHeaderSize: the end record and the archive comment
mainHeaderSize(header) == ENDHDR + header.commentLength

\* compareAscending without toLowerCase
compareCaseSensitive(a, b) ==
  LET nameA == entryNameOf(a)
      nameB == entryNameOf(b)
  IN  IF StrLess(nameA, nameB) THEN -1
      ELSE IF StrLess(nameB, nameA) THEN 1
      ELSE 0

\* the comparison function handed to sort by compressToBuffer
compareAscending(a, b) ==
  LET nameA == toLowerCase(entryNameOf(a))
      nameB == toLowerCase(entryNameOf(b))
  IN  IF StrLess(nameA, nameB) THEN -1
      ELSE IF StrLess(nameB, nameA) THEN 1
      ELSE 0

\* compareDescending with the two results swapped
compareSwapped(a, b) ==
  LET nameA == toLowerCase(entryNameOf(a))
      nameB == toLowerCase(entryNameOf(b))
  IN  IF StrLess(nameA, nameB) THEN -1
      ELSE IF StrLess(nameB, nameA) THEN 1
      ELSE 0

\* the comparison function handed to sort by toAsyncBuffer
compareDescending(a, b) ==
  LET nameA == toLowerCase(entryNameOf(a))
      nameB == toLowerCase(entryNameOf(b))
  IN  IF StrLess(nameB, nameA) THEN -1
      ELSE IF StrLess(nameA, nameB) THEN 1
      ELSE 0

\* the locals of a serializer before the first entry
NoLocals ==
  [totalSize |-> 0, dataBlock |-> <<>>, entryHeaders |-> <<>>, dindex |-> 0]

\* a step of a serializer call that concerns one entry
Event(ev, entry) == [ev |-> ev, entry |-> entry]

\* the body run for one entry once its compressed data is there: sets
\* header.offset, appends the three data blocks and the packed header,
\* and adds to mainHeader.size.  w = [loc, size, offs, events]: the locals,
\* the running mainHeader.size, the header.offset of every entry and the
\* steps the call has taken so far
writeEntry(w, entry) ==
  LET dataLength == dataHeaderLength(entry) + postHeaderLength(entry)
                      + compressedLength(entry)
      entryHeader == [kind |-> "entryHeader", entry |-> entry,
                      length |-> entryHeaderLength(entry),
                      offset |-> w.loc.dindex]
  IN  [loc |-> [totalSize |-> w.loc.totalSize + dataLength + entryHeader.length,
                dataBlock |-> w.loc.dataBlock \o
                  << [kind |-> "dataHeader", entry |-> entry,
                      length |-> dataHeaderLength(entry)],
                     [kind |-> "postHeader", entry |-> entry,
                      length |-> postHeaderLength(entry)],
                     [kind |-> "compressedData", entry |-> entry,
                      length |-> compressedLength(entry)] >>,
                entryHeaders |-> Append(w.loc.entryHeaders, entryHeader),
                dindex |-> w.loc.dindex + dataLength],
       size |-> w.size + entryHeader.length,
       offs |-> [w.offs EXCEPT ![entry] = w.loc.dindex],
       events |-> w.events \o
         << Event("header.offset", entry), Event("dataHeaderToBinary", entry),
            Event("dataBlock.push", entry), Event("packHeader", entry),
            Event("entryHeaders.push", entry) >>]

\* forEachEntry asking for the compressed data after the headers are packed
RECURSIVE forEachEntryCompressingLate(_, _)
forEachEntryCompressingLate(w, list) ==
  IF list = <<>> THEN w
  ELSE LET w1 == writeEntry(w, Head(list))
       IN  forEachEntryCompressingLate(
             [w1 EXCEPT !.events = Append(@, Event("getCompressedData", Head(list)))],
             Tail(list))

\* entryList.forEach of compressToBuffer: getCompressedData, then the body
RECURSIVE forEachEntry(_, _)
forEachEntry(w, list) ==
  IF list = <<>> THEN w
  ELSE forEachEntry(
         writeEntry(
           [w EXCEPT !.events = Append(@, Event("getCompressedData", Head(list)))],
           Head(list)),
         Tail(list))

\* the sum of the lengths of a sequence of blocks
RECURSIVE copyAll(_, _)
copyAll(blocks, dindex) ==
  IF blocks = <<>> THEN dindex
  ELSE copyAll(Tail(blocks), dindex + Head(blocks).length)

\* the tail of both serializers: adds the end record to the total, sets
\* mainHeader.offset, allocates the output and writes the data blocks, the
\* central-directory headers and the end record behind each other
finalizeAtStart(loc, header) ==
  LET totalSize == loc.totalSize + mainHeaderSize(header)
      dindex == copyAll(loc.entryHeaders, copyAll(loc.dataBlock, 0))
  IN  [mainHeader |-> header,
       outBuffer |-> [length |-> totalSize, data |-> loc.dataBlock,
                      cen |-> loc.entryHeaders, end |-> header,
                      endAt |-> dindex]]

finalize(loc, header) ==
  LET totalSize == loc.totalSize + mainHeaderSize(header)
      mh == [header EXCEPT !.offset = loc.dindex]
      dindex == copyAll(loc.entryHeaders, copyAll(loc.dataBlock, 0))
  IN  [mainHeader |-> mh,
       outBuffer |-> [length |-> totalSize, data |-> loc.dataBlock,
                      cen |-> loc.entryHeaders, end |-> mh, endAt |-> dindex]]

(***************************************************************************)
(* The container after construction.                                       *)
(***************************************************************************)
\* the locals of a toAsyncBuffer call; start and startTable are the list,
\* as the call has sorted it, and the table when the call started
IdleCall ==
  [pc |-> "idle", entry |-> Undefined, dataBlock |-> <<>>,
   entryHeaders |-> <<>>, dindex |-> 0, totalSize |-> 0,
   start |-> <<>>, startTable |-> <<>>, undisturbed |-> TRUE,
   events |-> <<>>]

\* the record of a completed call
Completed(op, arg) ==
  [op |-> op, arg |-> arg, dir |-> FALSE, undisturbed |-> TRUE,
   pre |-> <<>>, preTable |-> <<>>, ret |-> <<>>, events |-> <<>>]

\* new MainHeader()
NewMainHeader ==
  [diskEntries |-> 0, totalEntries |-> 0, size |-> 0, offset |-> 0,
   commentLength |-> 0]

\* the constructor has returned the container
Opened == [pc |-> "opened", i |-> 0, n |-> 0, endOffset |-> 0, error |-> "none"]

EmptyBuffer == [length |-> 0, bytes |-> <<>>]

InFlight == {c \in 1..MaxCalls : calls[c].pc = "waiting"}

vars ==
  <<heap, entryList, entryTable, mainHeader, headerOffset, calls, last,
    mutated, inBuffer, opening>>

\* An archive without entries has been opened: readEntries has built an
\* empty list and an empty table, totalEntries is what the end record says.
\* The client holds the entries of Pool.
Init ==
  /\ heap = Pool
  /\ entryList = <<>>
  /\ entryTable = <<>>
  /\ \E t \in 0..1 : mainHeader = [NewMainHeader EXCEPT !.totalEntries = t]
  /\ headerOffset = [e \in Entries |-> 0]
  /\ calls = [c \in 1..MaxCalls |-> IdleCall]
  /\ last = Completed("open", 0)
  /\ mutated = FALSE
  /\ inBuffer = EmptyBuffer
  /\ opening = Opened

(***************************************************************************)
(* The mutation calls and the query.                                       *)
(***************************************************************************)
SetEntry(entry) ==
  LET st == setEntry([list |-> entryList, table |-> entryTable,
                      total |-> mainHeader.totalEntries], entry)
  IN  /\ Len(entryList) < MaxLen
      /\ entryList' = st.list
      /\ entryTable' = st.table
      /\ mainHeader' = [mainHeader EXCEPT !.totalEntries = st.total]
      /\ last' = [Completed("setEntry", entry) EXCEPT !.dir = isDirectory(entry)]
      /\ mutated' = TRUE
      /\ UNCHANGED <<heap, headerOffset, calls, inBuffer, opening>>

DeleteEntry(entryName) ==
  LET st == deleteEntry([list |-> entryList, table |-> entryTable,
                         total |-> mainHeader.totalEntries], entryName)
      entry == getEntry(entryName)
  IN  /\ entryList' = st.list
      /\ entryTable' = st.table
      /\ mainHeader' = [mainHeader EXCEPT !.totalEntries = st.total]
      /\ last' = [Completed("deleteEntry", entryName) EXCEPT
                    !.dir = (entry # Undefined /\ isDirectory(entry))]
      /\ mutated' = TRUE
      /\ UNCHANGED <<heap, headerOffset, calls, inBuffer, opening>>

GetEntryChildren(entry) ==
  /\ last' = [Completed("getEntryChildren", entry) EXCEPT
                !.dir = isDirectory(entry),
                !.ret = getEntryChildren(entryList, entry)]
  /\ UNCHANGED <<heap, entryList, entryTable, mainHeader, headerOffset, calls,
                 mutated, inBuffer, opening>>

Next ==
  \/ \E entry \in Entries : SetEntry(entry)
  \/ \E entryName \in Names : DeleteEntry(entryName)
  \/ \E entry \in Entries : GetEntryChildren(entry)

\* the container under its mutation calls
Spec == Init /\ [][Next]_vars

(***************************************************************************)
(* The serializers.  compressToBuffer runs to completion in one call.      *)
(* toAsyncBuffer returns after asking the first entry for its data; every  *)
(* completion callback is one more step.  `compress` is handed entryList   *)
(* itself, so that its pop takes the entry out of the container's list.    *)
(***************************************************************************)
\* the lists a client can build with at most MaxLen setEntry calls
RECURSIVE ListsOfLength(_)
ListsOfLength(k) ==
  IF k = 0 THEN {<<>>}
  ELSE {Append(l, e) : l \in ListsOfLength(k - 1), e \in Entries}

BuiltLists == UNION {ListsOfLength(k) : k \in 0..MaxLen}

\* the container state after setEntry was called for every element of list
RECURSIVE setEntries(_, _)
setEntries(st, list) ==
  IF list = <<>> THEN st
  ELSE setEntries(setEntry(st, Head(list)), Tail(list))

\* The client has opened an archive without entries and has called setEntry
\* for the elements of some list; it is about to serialize.
SerInit ==
  /\ heap = Pool
  /\ \E list \in BuiltLists :
       LET st == setEntries([list |-> <<>>, table |-> <<>>, total |-> 0], list)
       IN  /\ entryList = st.list
           /\ entryTable = st.table
           /\ mainHeader = [NewMainHeader EXCEPT !.totalEntries = st.total]
           /\ mutated = (list # <<>>)
           /\ last = IF list = <<>> THEN Completed("open", 0)
                     ELSE [Completed("setEntry", list[Len(list)]) EXCEPT
                             !.dir = isDirectory(list[Len(list)])]
  /\ headerOffset = [e \in Entries |-> 0]
  /\ calls = [c \in 1..MaxCalls |-> IdleCall]
  /\ inBuffer = EmptyBuffer
  /\ opening = Opened

\* The client has opened an archive without entries and has called setEntry
\* for the elements of some list of at most MaxDirLen elements; it goes on
\* deleting entries by name.
DirInit ==
  /\ heap = Pool
  /\ \E list \in UNION {ListsOfLength(k) : k \in 0..MaxDirLen} :
       LET st == setEntries([list |-> <<>>, table |-> <<>>, total |-> 0], list)
       IN  /\ entryList = st.list
           /\ entryTable = st.table
           /\ mainHeader = [NewMainHeader EXCEPT !.totalEntries = st.total]
           /\ mutated = (list # <<>>)
           /\ last = IF list = <<>> THEN Completed("open", 0)
                     ELSE [Completed("setEntry", list[Len(list)]) EXCEPT
                             !.dir = isDirectory(list[Len(list)])]
  /\ headerOffset = [e \in Entries |-> 0]
  /\ calls = [c \in 1..MaxCalls |-> IdleCall]
  /\ inBuffer = EmptyBuffer
  /\ opening = Opened

DirNext ==
  \/ \E entryName \in Names : DeleteEntry(entryName)
  \/ \E entry \in Entries : GetEntryChildren(entry)

\* a built container under deleteEntry
DirSpec == DirInit /\ [][DirNext]_vars

\* compressToBuffer has sorted the list under the calls in flight
Disturbed(cs) ==
  [c \in 1..MaxCalls |->
     IF cs[c].pc = "waiting" THEN [cs[c] EXCEPT !.undisturbed = FALSE]
     ELSE cs[c]]

\* CompressToBuffer without the reset of mainHeader.size
CompressToBufferAccumulating ==
  LET sorted == IF Len(entryList) > 1
                THEN sort(entryList,
                       [a \in DOMAIN heap, b \in DOMAIN heap |->
                          compareAscending(a, b)])
                ELSE entryList
      w == forEachEntry([loc |-> NoLocals, size |-> mainHeader.size,
                         offs |-> headerOffset, events |-> <<>>],
                        sorted)
      fin == finalize(w.loc, [mainHeader EXCEPT !.size = w.size, !.offset = 0])
  IN  /\ entryList' = sorted
      /\ headerOffset' = w.offs
      /\ mainHeader' = fin.mainHeader
      /\ calls' = Disturbed(calls)
      /\ last' = [Completed("compressToBuffer",
                              IF last.op = "compressToBuffer" THEN 1 ELSE 0)
                    EXCEPT !.pre = entryList, !.preTable = entryTable,
                           !.ret = fin.outBuffer, !.events = w.events]
      /\ UNCHANGED <<heap, entryTable, mutated, inBuffer, opening>>

\* compressToBuffer; the call is recorded with 1 when the call completed
\* before it was compressToBuffer too, with 0 otherwise
CompressToBuffer ==
  LET sorted == IF Len(entryList) > 1
                THEN sort(entryList,
                       [a \in DOMAIN heap, b \in DOMAIN heap |->
                          compareAscending(a, b)])
                ELSE entryList
      w == forEachEntry([loc |-> NoLocals, size |-> 0, offs |-> headerOffset,
                         events |-> <<>>],
                        sorted)
      fin == finalize(w.loc, [mainHeader EXCEPT !.size = w.size, !.offset = 0])
  IN  /\ entryList' = sorted
      /\ headerOffset' = w.offs
      /\ mainHeader' = fin.mainHeader
      /\ calls' = Disturbed(calls)
      /\ last' = [Completed("compressToBuffer",
                              IF last.op = "compressToBuffer" THEN 1 ELSE 0)
                    EXCEPT !.pre = entryList, !.preTable = entryTable,
                           !.ret = fin.outBuffer, !.events = w.events]
      /\ UNCHANGED <<heap, entryTable, mutated, inBuffer, opening>>

\* `compress` on a list that is not empty, after the pop: the progress
\* callback, then the request for the compressed data of the entry
startEvents(entry) ==
  << Event("onItemStart", entry), Event("getCompressedDataAsync", entry) >>

\* the completion callback is entered with the compressed data and calls
\* the progress callback
callbackEvents(entry) ==
  << Event("compressedData", entry), Event("onItemEnd", entry) >>

ToAsyncBuffer(c) ==
  LET sorted == IF Len(entryList) > 1
                THEN sort(entryList,
                       [a \in DOMAIN heap, b \in DOMAIN heap |->
                          compareDescending(a, b)])
                ELSE entryList
  IN  /\ calls[c].pc = "idle"
      /\ \A b \in 1..(c - 1) : calls[b].pc # "idle"
      /\ mainHeader' = [mainHeader EXCEPT !.size = 0, !.offset = 0]
      /\ IF Len(sorted) > 0
         THEN /\ entryList' = SubSeq(sorted, 1, Len(sorted) - 1)
              /\ calls' = [calls EXCEPT ![c] =
                   [pc |-> "waiting", entry |-> sorted[Len(sorted)],
                    dataBlock |-> <<>>, entryHeaders |-> <<>>,
                    dindex |-> 0, totalSize |-> 0,
                    start |-> sorted, startTable |-> entryTable,
                    undisturbed |-> TRUE,
                    events |-> startEvents(sorted[Len(sorted)])]]
         ELSE /\ entryList' = sorted
              /\ UNCHANGED calls
      /\ last' = [Completed("toAsyncBuffer", c) EXCEPT
                    !.pre = entryList, !.preTable = entryTable]
      /\ UNCHANGED <<heap, entryTable, headerOffset, mutated, inBuffer, opening>>

\* Complete calling `compress` for the next entry before it writes the
\* blocks of the entry that has completed
CompleteStartingNext(c) ==
  LET call == calls[c]
      w == writeEntry([loc |-> [totalSize |-> call.totalSize,
                                dataBlock |-> call.dataBlock,
                                entryHeaders |-> call.entryHeaders,
                                dindex |-> call.dindex],
                       size |-> mainHeader.size, offs |-> headerOffset,
                       events |-> call.events \o callbackEvents(call.entry) \o
                         IF Len(entryList) > 0
                         THEN startEvents(entryList[Len(entryList)])
                         ELSE <<>>],
                      call.entry)
      fin == finalize(w.loc, [mainHeader EXCEPT !.size = w.size])
  IN  /\ call.pc = "waiting"
      /\ headerOffset' = w.offs
      /\ IF Len(entryList) > 0
         THEN /\ entryList' = SubSeq(entryList, 1, Len(entryList) - 1)
              /\ mainHeader' = [mainHeader EXCEPT !.size = w.size]
              /\ calls' = [calls EXCEPT ![c] =
                   [call EXCEPT !.entry = entryList[Len(entryList)],
                                !.totalSize = w.loc.totalSize,
                                !.dataBlock = w.loc.dataBlock,
                                !.entryHeaders = w.loc.entryHeaders,
                                !.dindex = w.loc.dindex,
                                !.events = w.events]]
              /\ last' = Completed("callback", c)
         ELSE /\ mainHeader' = fin.mainHeader
              /\ calls' = [calls EXCEPT ![c] = IdleCall]
              /\ last' = [Completed("onSuccess", c) EXCEPT
                            !.undisturbed = call.undisturbed,
                            !.pre = call.start, !.preTable = call.startTable,
                            !.ret = fin.outBuffer,
                            !.events = Append(w.events,
                                         Event("onSuccess", Undefined))]
              /\ UNCHANGED entryList
      /\ UNCHANGED <<heap, entryTable, mutated, inBuffer, opening>>

\* the callback handed to getCompressedDataAsync by call c
Complete(c) ==
  LET call == calls[c]
      w == writeEntry([loc |-> [totalSize |-> call.totalSize,
                                dataBlock |-> call.dataBlock,
                                entryHeaders |-> call.entryHeaders,
                                dindex |-> call.dindex],
                       size |-> mainHeader.size, offs |-> headerOffset,
                       events |-> call.events \o callbackEvents(call.entry)],
                      call.entry)
      fin == finalize(w.loc, [mainHeader EXCEPT !.size = w.size])
  IN  /\ call.pc = "waiting"
      /\ headerOffset' = w.offs
      /\ IF Len(entryList) > 0
         THEN /\ entryList' = SubSeq(entryList, 1, Len(entryList) - 1)
              /\ mainHeader' = [mainHeader EXCEPT !.size = w.size]
              /\ calls' = [calls EXCEPT ![c] =
                   [call EXCEPT !.entry = entryList[Len(entryList)],
                                !.totalSize = w.loc.totalSize,
                                !.dataBlock = w.loc.dataBlock,
                                !.entryHeaders = w.loc.entryHeaders,
                                !.dindex = w.loc.dindex,
                                !.events = w.events \o
                                  startEvents(entryList[Len(entryList)])]]
              /\ last' = Completed("callback", c)
         ELSE /\ mainHeader' = fin.mainHeader
              /\ calls' = [calls EXCEPT ![c] = IdleCall]
              /\ last' = [Completed("onSuccess", c) EXCEPT
                            !.undisturbed = call.undisturbed,
                            !.pre = call.start, !.preTable = call.startTable,
                            !.ret = fin.outBuffer,
                            !.events = Append(w.events,
                                         Event("onSuccess", Undefined))]
              /\ UNCHANGED entryList
      /\ UNCHANGED <<heap, entryTable, mutated, inBuffer, opening>>

SerNext ==
  \/ CompressToBuffer
  \/ \E c \in 1..MaxCalls : ToAsyncBuffer(c)
  \/ \E c \in 1..MaxCalls : Complete(c)

\* the built container under its serializers
SerSpec == SerInit /\ [][SerNext]_vars

\* every compression that was asked for calls back
FairSerSpec == SerSpec /\ \A c \in 1..MaxCalls : WF_vars(Complete(c))

(***************************************************************************)
(* Opening a buffer.  A buffer is its length and its bytes; a byte that    *)
(* `bytes` does not list is 0.                                             *)
(***************************************************************************)
\* inBuffer[i]
byteAt(buf, i) == IF i \in DOMAIN buf.bytes THEN buf.bytes[i] ELSE 0

\* Buffer.readUInt16LE
readUInt16LE(buf, i) == byteAt(buf, i) + 256 * byteAt(buf, i + 1)

\* Buffer.readUInt32LE
readUInt32LE(buf, i) ==
  byteAt(buf, i) + 256 * byteAt(buf, i + 1) + 65536 * byteAt(buf, i + 2)
    + 16777216 * byteAt(buf, i + 3)

\* MainHeader.loadFromBinary on the ENDHDR bytes at endOffset
loadFromBinary(buf, endOffset) ==
  [diskEntries |-> readUInt16LE(buf, endOffset + ENDSUB),
   totalEntries |-> readUInt16LE(buf, endOffset + ENDTOT),
   size |-> readUInt32LE(buf, endOffset + ENDSIZ),
   offset |-> readUInt32LE(buf, endOffset + ENDOFF),
   commentLength |-> readUInt16LE(buf, endOffset + ENDCOM)]

\* Buffer.slice(from, to) as the sequence of its bytes, cut at the end
slice(buf, from, to) ==
  [k \in 1..(Min(to, buf.length) - Min(from, buf.length)) |->
     byteAt(buf, from + k - 1)]

\* readEntries: diskEntries records from mainHeader.offset on, each one a
\* new entry put in the list at its index and in the table under its name.
\* r = [heap, list, table, offs, index]
RECURSIVE readEntries(_, _, _)
readEntries(buf, r, count) ==
  IF count = 0 THEN r
  ELSE LET tmp == r.index
           fileNameLength == readUInt16LE(buf, tmp + CENNAM)
           extraLength == readUInt16LE(buf, tmp + CENEXT)
           commentLength == readUInt16LE(buf, tmp + CENCOM)
           entryName == slice(buf, tmp + CENHDR, tmp + CENHDR + fileNameLength)
           entryHeaderSize == CENHDR + fileNameLength + extraLength + commentLength
           entry == Len(r.heap) + 1
       IN  readEntries(buf,
             [heap |-> Append(r.heap,
                         [entryName |-> entryName, extra |-> extraLength,
                          comment |-> commentLength,
                          data |-> readUInt32LE(buf, tmp + CENSIZ),
                          crc |-> readUInt32LE(buf, tmp + CENCRC)]),
              list |-> Append(r.list, entry),
              table |-> tablePut(r.table, entryName, entry),
              offs |-> Append(r.offs, readUInt32LE(buf, tmp + CENOFF)),
              index |-> r.index + entryHeaderSize],
             count - 1)

(***************************************************************************)
(* The buffers handed to the constructor: short buffers that are 0 but for *)
(* some end-record signatures and one stray "P", long buffers whose        *)
(* beginning lies before the comment window, and archives written for a    *)
(* list of Pool.                                                           *)
(***************************************************************************)
SIGBYTES == <<80, 75, 5, 6>>

\* the buffer of `length` bytes with the signature at the offsets sigs and
\* a "P" at the offsets ps
Marked(length, sigs, ps) ==
  [length |-> length,
   bytes |-> [o \in {q \in 0..(length - 1) :
                      q \in ps \/ \E g \in sigs : q \in g..(g + 3)} |->
                IF \E g \in sigs : o \in g..(g + 3)
                THEN LET g == CHOOSE h \in sigs :
                                /\ o \in h..(h + 3)
                                /\ \A h2 \in sigs : o \in h2..(h2 + 3) => h2 <= h
                     IN  SIGBYTES[o - g + 1]
                ELSE CHARP]]

\* the lengths of the short buffers: some below ENDHDR, and ENDHDR with up
\* to MaxPad bytes before the end record
ShortLengths == {0, 4, ENDHDR - 1} \cup ENDHDR..(ENDHDR + MaxPad)

\* at most two signatures, in the window 0..MaxPad or right of it, and at
\* most one stray "P" in the window
ShortBuffers ==
  {Marked(length, sigs, ps) :
     length \in ShortLengths,
     sigs \in {g \in SUBSET (0..(MaxPad + 4)) : Cardinality(g) <= 2},
     ps \in {q \in SUBSET (0..MaxPad) : Cardinality(q) <= 1}}

\* for a buffer of ENDHDR + MAXCOMMENT + over bytes the window starts at
\* offset over
LongMarks(over) ==
  {{}, {0}, {over}, {0, over}, {over - 1, MAXCOMMENT + over},
   {over - 1, MAXCOMMENT + over - 4}}

LongBuffers ==
  UNION {{Marked(ENDHDR + MAXCOMMENT + over, sigs, {}) : sigs \in LongMarks(over)} :
           over \in 1..MaxOver}

LE16(v) == <<v % 256, v \div 256>>

LE32(v) == <<v % 256, (v \div 256) % 256, (v \div 65536) % 256, v \div 16777216>>

Zeros(k) == [j \in 1..k |-> 0]

\* the central-directory record of entry e of Pool, its data at `offset`
CenRecord(e, offset) ==
  <<80, 75, 1, 2>> \o Zeros(CENCRC - 4) \o LE32(Pool[e].crc)
    \o LE32(Pool[e].data) \o Zeros(4)
    \o LE16(Len(Pool[e].entryName)) \o LE16(Pool[e].extra)
    \o LE16(Pool[e].comment) \o Zeros(CENOFF - CENCOM - 2) \o LE32(offset)
    \o Pool[e].entryName \o Zeros(Pool[e].extra) \o Zeros(Pool[e].comment)

RECURSIVE CenRecords(_, _)
CenRecords(list, offset) ==
  IF list = <<>> THEN <<>>
  ELSE CenRecord(Head(list), offset)
         \o CenRecords(Tail(list), offset + LOCHDR + Pool[Head(list)].data)

\* an archive of the entries of list: `pad` bytes of data, the central
\* directory, the end record
ArchiveBytes(list, pad) ==
  LET cen == CenRecords(list, 0)
  IN  Zeros(pad) \o cen \o <<80, 75, 5, 6>> \o Zeros(4) \o LE16(Len(list))
        \o LE16(Len(list)) \o LE32(Len(cen)) \o LE32(pad) \o LE16(0)

Archive(list, pad) ==
  LET b == ArchiveBytes(list, pad)
  IN  [length |-> Len(b), bytes |-> [o \in 0..(Len(b) - 1) |-> b[o + 1]]]

Archives ==
  {Archive(list, pad) : list \in {<<1>>, <<5, 1>>, <<1, 2, 3>>, <<3, 4>>},
                        pad \in 0..1}

\* the offsets of the comment window that carry the end-record signature
Candidates(buf) ==
  {o \in Max(0, buf.length - ENDHDR - MAXCOMMENT)..(buf.length - ENDHDR) :
     readUInt32LE(buf, o) = ENDSIG}

\* the marked buffers whose end-record candidates announce no entry: the
\* bytes of such a buffer hold no central directory to read
Buffers ==
  {buf \in ShortBuffers \cup LongBuffers :
     \A o \in Candidates(buf) : readUInt16LE(buf, o + ENDSUB) = 0}
    \cup Archives

Constructing(buf) ==
  [pc |-> "scan", i |-> buf.length - ENDHDR,
   n |-> Max(0, buf.length - ENDHDR - MAXCOMMENT), endOffset |-> -1,
   error |-> "none"]

\* the constructor is entered: the fields are initialized, readMainHeader
\* has set i, n and endOffset
OpenInit ==
  /\ inBuffer \in Buffers
  /\ opening = Constructing(inBuffer)
  /\ heap = <<>>
  /\ entryList = <<>>
  /\ entryTable = <<>>
  /\ mainHeader = NewMainHeader
  /\ headerOffset = <<>>
  /\ calls = [c \in 1..MaxCalls |-> IdleCall]
  /\ last = Completed("new", 0)
  /\ mutated = FALSE

containerVars ==
  <<heap, entryList, entryTable, mainHeader, headerOffset, calls, last, mutated>>

\* the byte at i is not "P": continue
ScanContinue ==
  /\ opening.pc = "scan"
  /\ opening.i >= opening.n
  /\ byteAt(inBuffer, opening.i) # CHARP
  /\ opening' = [opening EXCEPT !.i = opening.i - 1]
  /\ UNCHANGED <<containerVars, inBuffer>>

\* the byte at i is "P" but the four bytes are not the signature
ScanMiss ==
  /\ opening.pc = "scan"
  /\ opening.i >= opening.n
  /\ byteAt(inBuffer, opening.i) = CHARP
  /\ readUInt32LE(inBuffer, opening.i) # ENDSIG
  /\ opening' = [opening EXCEPT !.i = opening.i - 1]
  /\ UNCHANGED <<containerVars, inBuffer>>

\* ScanBreak without the break
ScanNoBreak ==
  /\ opening.pc = "scan"
  /\ opening.i >= opening.n
  /\ byteAt(inBuffer, opening.i) = CHARP
  /\ readUInt32LE(inBuffer, opening.i) = ENDSIG
  /\ opening' = [opening EXCEPT !.endOffset = opening.i, !.i = opening.i - 1]
  /\ UNCHANGED <<containerVars, inBuffer>>

\* the signature is at i: endOffset = i; break
ScanBreak ==
  /\ opening.pc = "scan"
  /\ opening.i >= opening.n
  /\ byteAt(inBuffer, opening.i) = CHARP
  /\ readUInt32LE(inBuffer, opening.i) = ENDSIG
  /\ opening' = [opening EXCEPT !.endOffset = opening.i, !.pc = "scanned"]
  /\ UNCHANGED <<containerVars, inBuffer>>

\* i >= n fails: the loop is left
ScanExit ==
  /\ opening.pc = "scan"
  /\ opening.i < opening.n
  /\ opening' = [opening EXCEPT !.pc = "scanned"]
  /\ UNCHANGED <<containerVars, inBuffer>>

\* Throw with !endOffset for !~endOffset
ThrowOnZero ==
  /\ opening.pc = "scanned"
  /\ opening.endOffset = 0
  /\ opening' = [opening EXCEPT !.pc = "failed", !.error = "INVALID_FORMAT"]
  /\ UNCHANGED <<containerVars, inBuffer>>

\* if (!~endOffset) throw Errors.INVALID_FORMAT
Throw ==
  /\ opening.pc = "scanned"
  /\ opening.endOffset = -1
  /\ opening' = [opening EXCEPT !.pc = "failed", !.error = "INVALID_FORMAT"]
  /\ UNCHANGED <<containerVars, inBuffer>>

\* the rest of readMainHeader and readEntries; the container is returned
Load ==
  LET mh == loadFromBinary(inBuffer, opening.endOffset)
      r == readEntries(inBuffer,
             [heap |-> <<>>, list |-> <<>>, table |-> <<>>, offs |-> <<>>,
              index |-> mh.offset],
             mh.diskEntries)
  IN  /\ opening.pc = "scanned"
      /\ opening.endOffset # -1
      /\ mainHeader' = mh
      /\ heap' = r.heap
      /\ entryList' = r.list
      /\ entryTable' = r.table
      /\ headerOffset' = r.offs
      /\ opening' = [opening EXCEPT !.pc = "opened"]
      /\ last' = [last EXCEPT !.op = "open"]
      /\ UNCHANGED <<calls, mutated, inBuffer>>

OpenNext ==
  \/ ScanContinue
  \/ ScanMiss
  \/ ScanBreak
  \/ ScanExit
  \/ Throw
  \/ Load

\* the constructor on a buffer
OpenSpec == OpenInit /\ [][OpenNext]_vars

(***************************************************************************)
(* An archive that is opened, changed, written and opened again.  The      *)
(* bytes of the output are those of its blocks: the header codecs write    *)
(* the fields at the offsets the reader takes them from.                   *)
(***************************************************************************)
\* EntryHeader.dataHeaderToBinary: the local file header, "PK\003\004"; the
\* container reads none of its fields
dataHeaderToBinary(entry) == <<80, 75, 3, 4>> \o Zeros(LOCHDR - 4)

\* ZipEntry.packHeader: the central-directory record of the entry with the
\* header.offset it had when it was packed
packHeader(entry, offset) ==
  <<80, 75, 1, 2>> \o Zeros(CENCRC - 4) \o LE32(heap[entry].crc)
    \o LE32(heap[entry].data) \o Zeros(4)
    \o LE16(Len(heap[entry].entryName)) \o LE16(heap[entry].extra)
    \o LE16(heap[entry].comment) \o Zeros(CENOFF - CENCOM - 2) \o LE32(offset)
    \o heap[entry].entryName \o Zeros(heap[entry].extra)
    \o Zeros(heap[entry].comment)

\* MainHeader.toBinary: the end record, with room for the comment
toBinary(header) ==
  <<80, 75, 5, 6>> \o Zeros(ENDSUB - 4) \o LE16(header.diskEntries)
    \o LE16(header.totalEntries) \o LE32(header.size) \o LE32(header.offset)
    \o LE16(header.commentLength) \o Zeros(header.commentLength)

\* the bytes of a block
blockBytes(block) ==
  CASE block.kind = "dataHeader" -> dataHeaderToBinary(block.entry)
    [] block.kind = "postHeader" ->
         heap[block.entry].entryName \o Zeros(heap[block.entry].extra)
    [] block.kind = "compressedData" -> Zeros(heap[block.entry].data)
    [] block.kind = "entryHeader" -> packHeader(block.entry, block.offset)

\* content.copy(outBuffer, dindex) for every block of a sequence
RECURSIVE copyBytes(_)
copyBytes(blocks) ==
  IF blocks = <<>> THEN <<>>
  ELSE blockBytes(Head(blocks)) \o copyBytes(Tail(blocks))

\* the buffer compressToBuffer returns: Buffer.alloc(totalSize), the data
\* blocks, the central-directory headers and the end record copied into it
bufferOf(out) ==
  LET content == copyBytes(out.data) \o copyBytes(out.cen) \o toBinary(out.end)
  IN  [length |-> out.length,
       bytes |-> [o \in 0..(out.length - 1) |->
                    IF o < Len(content) THEN content[o + 1] ELSE 0]]

\* the fields of the entries of a list
RecordsOf(list) == [i \in 1..Len(list) |-> heap[list[i]]]

\* the last part of a split archive: the central directory holds the
\* entries of list, the end record counts `total` entries on all disks
Segment(list, total) ==
  LET cen == CenRecords(list, 0)
      b == cen \o <<80, 75, 5, 6>> \o Zeros(4) \o LE16(Len(list))
             \o LE16(total) \o LE32(Len(cen)) \o LE32(0) \o LE16(0)
  IN  [length |-> Len(b), bytes |-> [o \in 0..(Len(b) - 1) |-> b[o + 1]]]

Segments == {Segment(<<1>>, 2), Segment(<<5, 1>>, 3)}

\* the buffers a client opens, changes and writes: the archives, an archive
\* without entries, the split archives, and a buffer that is no archive
ArchiveBuffers ==
  Archives \cup Segments
    \cup {Marked(ENDHDR, {0}, {}), Marked(ENDHDR + MaxPad, {}, {0})}

\* the archives of every list of at most MaxLen entries of the pool
ValidArchives ==
  {Archive(list, pad) :
     list \in UNION {ListsOfLength(k) : k \in 0..MaxLen}, pad \in 0..1}

\* the buffers a client opens, writes and opens again
RoundTripBuffers ==
  ValidArchives \cup Segments \cup {Marked(ENDHDR + MaxPad, {}, {0})}

ArchiveInit ==
  /\ inBuffer \in ArchiveBuffers
  /\ opening = Constructing(inBuffer)
  /\ heap = <<>>
  /\ entryList = <<>>
  /\ entryTable = <<>>
  /\ mainHeader = NewMainHeader
  /\ headerOffset = <<>>
  /\ calls = [c \in 1..MaxCalls |-> IdleCall]
  /\ last = Completed("new", 0)
  /\ mutated = FALSE

\* the client creates an entry with the fields of Pool[k]
NewEntry(k) ==
  /\ opening.pc = "opened"
  /\ last.op # "compressToBuffer"
  /\ Len(heap) < mainHeader.diskEntries + MaxNew
  /\ heap' = Append(heap, Pool[k])
  /\ headerOffset' = Append(headerOffset, 0)
  /\ UNCHANGED <<entryList, entryTable, mainHeader, calls, last, mutated,
                 inBuffer, opening>>

\* the client hands the buffer compressToBuffer has returned for a
\* container it has not changed to the constructor: a new container.  The
\* call is recorded with the fields of the entries the old container held
\* when compressToBuffer was called.
Reopen ==
  /\ opening.pc = "opened"
  /\ last.op = "compressToBuffer"
  /\ ~mutated
  /\ inBuffer' = bufferOf(last.ret)
  /\ opening' = Constructing(inBuffer')
  /\ heap' = <<>>
  /\ entryList' = <<>>
  /\ entryTable' = <<>>
  /\ mainHeader' = NewMainHeader
  /\ headerOffset' = <<>>
  /\ last' = [Completed("new", 1) EXCEPT !.pre = RecordsOf(last.pre)]
  /\ UNCHANGED <<calls, mutated>>

\* the container is open and has not been written yet
Changing == opening.pc = "opened" /\ last.op # "compressToBuffer"

ArchiveNext ==
  \/ ScanContinue
  \/ ScanMiss
  \/ ScanBreak
  \/ ScanExit
  \/ Throw
  \/ Load
  \/ \E k \in Entries : NewEntry(k)
  \/ Changing /\ \E entry \in DOMAIN heap : SetEntry(entry)
  \/ Changing /\ \E entryName \in Names : DeleteEntry(entryName)
  \/ opening.pc = "opened" /\ CompressToBuffer

\* a container from its construction on: opened, changed, then written
ArchiveSpec == ArchiveInit /\ [][ArchiveNext]_vars

RoundTripInit ==
  /\ inBuffer \in RoundTripBuffers
  /\ opening = Constructing(inBuffer)
  /\ heap = <<>>
  /\ entryList = <<>>
  /\ entryTable = <<>>
  /\ mainHeader = NewMainHeader
  /\ headerOffset = <<>>
  /\ calls = [c \in 1..MaxCalls |-> IdleCall]
  /\ last = Completed("new", 0)
  /\ mutated = FALSE

RoundTripNext ==
  \/ ScanContinue
  \/ ScanMiss
  \/ ScanBreak
  \/ ScanExit
  \/ Throw
  \/ Load
  \/ opening.pc = "opened" /\ CompressToBuffer
  \/ Reopen

\* a container that is opened and written, and the output opened again
RoundTripSpec == RoundTripInit /\ [][RoundTripNext]_vars

(***************************************************************************)
(* Properties.                                                             *)
(***************************************************************************)
\* how often x occurs in list
Count(list, x) == Cardinality({i \in 1..Len(list) : list[i] = x})

\* the two lists hold the same entries, as multisets
SameEntries(a, b) ==
  /\ Len(a) = Len(b)
  /\ \A i \in 1..Len(a) : Count(a, a[i]) = Count(b, a[i])

\* p is a literal prefix of s
HasPrefix(s, p) == Len(s) >= Len(p) /\ \A i \in 1..Len(p) : s[i] = p[i]

\* the names of the list do not descend / ascend once lower-cased
Ascending(list) ==
  \A i, j \in 1..Len(list) :
    i < j => ~StrLess(toLowerCase(entryNameOf(list[j])),
                      toLowerCase(entryNameOf(list[i])))

Descending(list) ==
  \A i, j \in 1..Len(list) :
    i < j => ~StrLess(toLowerCase(entryNameOf(list[i])),
                      toLowerCase(entryNameOf(list[j])))

\* the entries of the blocks of one kind, in the order of the blocks
EntriesOf(blocks, kind) ==
  LET sel == SelectSeq(blocks, LAMBDA b : b.kind = kind)
  IN  [i \in 1..Len(sel) |-> sel[i].entry]

\* C1: serialization destroys no entry: when compressToBuffer has returned,
\* and when a toAsyncBuffer call has handed its buffer to onSuccess,
\* entryList holds the entries it held when the call started (as a
\* multiset) and entryTable is the table of that moment.
C1_SerializationKeepsEntries ==
  last.op \in {"compressToBuffer", "onSuccess"} =>
    /\ SameEntries(entryList, last.pre)
    /\ entryTable = last.preTable

\* C2: once setEntry or deleteEntry has been called, totalEntries is the
\* length of entryList whenever every public call made so far is complete.
C2_TotalEntriesIsLength ==
  (mutated /\ InFlight = {}) => mainHeader.totalEntries = Len(entryList)

\* C3: the table mirrors the list: a name is a key of entryTable exactly
\* when an element of entryList carries it, the entry bound to a key is an
\* element of entryList, and no two elements of entryList share a name.
C3_TableMirrorsList ==
  /\ \A name \in Names :
       name \in DOMAIN entryTable <=>
         \E i \in 1..Len(entryList) : entryNameOf(entryList[i]) = name
  /\ \A name \in DOMAIN entryTable :
       \E i \in 1..Len(entryList) : entryList[i] = entryTable[name]
  /\ \A i, j \in 1..Len(entryList) :
       i # j => entryNameOf(entryList[i]) # entryNameOf(entryList[j])

\* C4: after deleteEntry(name) for a name bound to a directory, no element
\* of entryList and no key of entryTable has name as a literal prefix.
C4_DirectoryDeleteRemovesPrefix ==
  (last.op = "deleteEntry" /\ last.dir) =>
    /\ \A i \in 1..Len(entryList) :
         ~HasPrefix(entryNameOf(entryList[i]), last.arg)
    /\ \A name \in DOMAIN entryTable : ~HasPrefix(name, last.arg)

\* C5: getEntryChildren(entry) returns the empty sequence for an entry that
\* is no directory; for a directory that is an element of entryList it
\* returns the elements of entryList whose name has the name of entry as a
\* prefix, entry included, in list order; it changes neither entryList nor
\* entryTable.
C5_GetEntryChildren ==
  [][last'.op = "getEntryChildren" =>
       LET entry == last'.arg
       IN  /\ entryList' = entryList
           /\ entryTable' = entryTable
           /\ ~isDirectory(entry) => last'.ret = <<>>
           /\ (isDirectory(entry) /\ Count(entryList, entry) > 0) =>
                last'.ret =
                  SelectSeq(entryList,
                    LAMBDA z : HasPrefix(entryNameOf(z), entryNameOf(entry)))]_vars

\* a directory of the list was asked for its children, and the list holds
\* children of it and entries that are none
C5_Witness ==
  /\ last.op = "getEntryChildren"
  /\ last.dir
  /\ Count(entryList, last.arg) > 0
  /\ Len(last.ret) >= 2
  /\ Len(last.ret) < Len(entryList)

\* the offsets of the comment window of inBuffer that carry the signature,
\* found without looking at single bytes first
Window == Max(0, inBuffer.length - ENDHDR - MAXCOMMENT)..(inBuffer.length - ENDHDR)

Signed == {o \in Window : readUInt32LE(inBuffer, o) = ENDSIG}

\* readMainHeader has left its loop
Scanned == opening.pc \in {"scanned", "opened", "failed"}

\* C6: when some offset of the window carries the signature, the offset
\* readMainHeader selects is the greatest such offset, whether or not the
\* signature occurs a second time in the window; the check for "P" does not
\* change it.
C6_RightMostSignature ==
  Scanned =>
    \/ Signed = {}
    \/ /\ opening.endOffset \in Signed
       /\ \A o \in Signed : o <= opening.endOffset

\* a buffer was opened that carries the signature twice in its window
C6_Witness ==
  /\ opening.pc = "opened"
  /\ Cardinality(Signed) >= 2
  /\ opening.endOffset \in Signed

\* C7: opening fails with INVALID_FORMAT exactly when no offset of the
\* window carries the signature; then no central directory was read and no
\* container was returned.
C7_InvalidFormat ==
  /\ opening.pc = "failed" =>
       /\ opening.error = "INVALID_FORMAT"
       /\ Signed = {}
       /\ mainHeader = NewMainHeader
       /\ heap = <<>> /\ entryList = <<>> /\ entryTable = <<>>
       /\ last.op # "open"
  /\ opening.pc = "opened" =>
       /\ opening.error = "none"
       /\ Signed # {}
       /\ last.op = "open"
  /\ opening.pc = "scanned" => (opening.endOffset = -1 <=> Signed = {})

\* opening failed for a buffer that carries the signature, but only before
\* the window
C7_Witness ==
  /\ opening.pc = "failed"
  /\ inBuffer.length > ENDHDR + MAXCOMMENT
  /\ readUInt32LE(inBuffer, 0) = ENDSIG

\* C8: compressToBuffer on more than one entry leaves entryList a
\* permutation of what it was, ascending by lower-cased entryName, and the
\* data blocks and the central-directory headers of the output are in that
\* order.
C8_SyncAscending ==
  (last.op = "compressToBuffer" /\ Len(last.pre) > 1) =>
    /\ SameEntries(entryList, last.pre)
    /\ Ascending(entryList)
    /\ EntriesOf(last.ret.data, "dataHeader") = entryList
    /\ EntriesOf(last.ret.data, "postHeader") = entryList
    /\ EntriesOf(last.ret.data, "compressedData") = entryList
    /\ EntriesOf(last.ret.cen, "entryHeader") = entryList

\* compressToBuffer has reordered a list in which lower-casing matters
C8_Witness ==
  /\ last.op = "compressToBuffer"
  /\ Len(last.pre) > 1
  /\ last.pre # entryList
  /\ \E i, j \in 1..Len(entryList) :
       /\ i < j
       /\ StrLess(entryNameOf(entryList[j]), entryNameOf(entryList[i]))
  /\ Len(last.ret.cen) = Len(entryList)

\* C9 as stated: the buffer toAsyncBuffer hands to onSuccess has its data
\* blocks and central-directory headers in descending case-insensitive
\* entryName order.
C9_AsyncDescending ==
  last.op = "onSuccess" =>
    /\ Descending(EntriesOf(last.ret.data, "compressedData"))
    /\ Descending(EntriesOf(last.ret.cen, "entryHeader"))

\* C9: the list is sorted descending and taken from its tail: unless
\* compressToBuffer sorts the list while the call waits, the buffer handed
\* to onSuccess has its data blocks and central-directory headers in
\* ascending case-insensitive entryName order, the order of the blocks of
\* compressToBuffer up to entries of equal lower-cased name.
C9_AsyncAscending ==
  (last.op = "onSuccess" /\ last.undisturbed) =>
    /\ Ascending(EntriesOf(last.ret.data, "dataHeader"))
    /\ Ascending(EntriesOf(last.ret.data, "compressedData"))
    /\ Ascending(EntriesOf(last.ret.cen, "entryHeader"))
    /\ EntriesOf(last.ret.data, "compressedData")
         = EntriesOf(last.ret.cen, "entryHeader")

\* a toAsyncBuffer call has written entries of different names
C9_Witness ==
  /\ last.op = "onSuccess"
  /\ last.undisturbed
  /\ Len(last.ret.cen) >= 2
  /\ ~Descending(EntriesOf(last.ret.cen, "entryHeader"))
  /\ SameEntries(EntriesOf(last.ret.cen, "entryHeader"), last.pre)

\* C10: a toAsyncBuffer call, also one for an empty list, is followed by
\* its onSuccess when every compression calls back.
C10_AsyncSucceeds ==
  \A c \in 1..MaxCalls :
    (last.op = "toAsyncBuffer" /\ last.arg = c)
      ~> (last.op = "onSuccess" /\ last.arg = c)

\* the sum of the lengths of the first k blocks
RECURSIVE LengthOfFirst(_, _)
LengthOfFirst(blocks, k) ==
  IF k = 0 THEN 0 ELSE LengthOfFirst(blocks, k - 1) + blocks[k].length

LengthOf(blocks) == LengthOfFirst(blocks, Len(blocks))

\* the last position of entry in the central-directory headers, 0 if none
LastHeaderOf(cen, entry) ==
  LET at == {k \in 1..Len(cen) : cen[k].entry = entry}
  IN  IF at = {} THEN 0 ELSE CHOOSE k \in at : \A j \in at : j <= k

\* C11: when a serializer has finalized, the header.offset packed for the
\* k-th entry, and the header.offset the entry is left with, is the sum of
\* the lengths of the data blocks of the k - 1 entries before it;
\* mainHeader.offset is the length of all data blocks, mainHeader.size the
\* length of all central-directory headers, and mainHeader.offset +
\* mainHeader.size is where the end record was written: the output length
\* minus mainHeaderSize.
C11_OffsetsAndSizes ==
  last.op \in {"compressToBuffer", "onSuccess"} =>
    LET out == last.ret
    IN  /\ Len(out.data) = 3 * Len(out.cen)
        /\ \A k \in 1..Len(out.cen) :
             /\ out.cen[k].offset = LengthOfFirst(out.data, 3 * (k - 1))
             /\ LastHeaderOf(out.cen, out.cen[k].entry) = k =>
                  headerOffset[out.cen[k].entry] = out.cen[k].offset
        /\ mainHeader = out.end
        /\ mainHeader.offset = LengthOf(out.data)
        /\ mainHeader.size = LengthOf(out.cen)
        /\ mainHeader.offset + mainHeader.size = out.endAt
        /\ out.endAt = out.length - mainHeaderSize(mainHeader)

\* C16: setEntry(entry) appends: entryList is the old list with entry at
\* its tail, getEntry(entry.entryName) returns entry, totalEntries is the
\* new length; an entry bound to the name before stays where it was in the
\* list, and no key of the table reaches it any more (unless it is entry
\* itself, set once more).
C16_SetEntryAppends ==
  [][last'.op = "setEntry" =>
       LET entry == last'.arg
           name == entryNameOf(entry)
           old == tableGet(entryTable, name)
       IN  /\ entryList' = Append(entryList, entry)
           /\ tableGet(entryTable', name) = entry
           /\ \A k \in DOMAIN entryTable \ {name} :
                k \in DOMAIN entryTable' /\ entryTable'[k] = entryTable[k]
           /\ DOMAIN entryTable' = DOMAIN entryTable \cup {name}
           /\ mainHeader'.totalEntries = Len(entryList')
           /\ (old # Undefined /\ old # entry) =>
                /\ \A i \in 1..Len(entryList) :
                     entryList[i] = old => entryList'[i] = old
                /\ \A k \in DOMAIN entryTable' : entryTable'[k] # old]_vars

\* setEntry was called with a name that the table bound to another entry,
\* an element of the list
C16_Witness ==
  /\ last.op = "setEntry"
  /\ Len(entryList) >= 2
  /\ entryList[Len(entryList)] = last.arg
  /\ \E i \in 1..(Len(entryList) - 1) :
       /\ entryList[i] # last.arg
       /\ entryNameOf(entryList[i]) = entryNameOf(last.arg)

\* C17 as stated: deleteEntry(name) for a name that is no key of entryTable
\* changes neither entryList nor entryTable nor totalEntries.
C17_DeleteAbsentIsNoOp ==
  [][(last'.op = "deleteEntry" /\ last'.arg \notin DOMAIN entryTable) =>
       /\ entryList' = entryList
       /\ entryTable' = entryTable
       /\ mainHeader'.totalEntries = mainHeader.totalEntries]_vars

\* C18 as stated: deleteEntry(name) for a name bound to a directory removes
\* nothing else: the elements of entryList whose name does not have name
\* as a prefix are all still there, in the same relative order.
C18_DirectoryDeleteKeepsOthers ==
  [][(last'.op = "deleteEntry" /\ last'.dir) =>
       LET Other(z) == ~HasPrefix(entryNameOf(z), last'.arg)
       IN  SelectSeq(entryList', Other) = SelectSeq(entryList, Other)]_vars

\* C19 as stated: serializations do not race: also when another serializer
\* call was started while a toAsyncBuffer call waited for a callback, the
\* buffer handed to an onSuccess holds one data block and one
\* central-directory header for every entry that was in entryList when its
\* call started.
C19_NoSharedStateRace ==
  last.op = "onSuccess" =>
    /\ SameEntries(EntriesOf(last.ret.data, "compressedData"), last.pre)
    /\ SameEntries(EntriesOf(last.ret.cen, "entryHeader"), last.pre)

\* C20: compressToBuffer is idempotent on the container: a call that
\* follows a compressToBuffer call with nothing in between leaves the order
\* of entryList, the header.offset of every entry, mainHeader.size and
\* mainHeader.offset as they were, and returns a buffer of the same length
\* with the same sequence of blocks.
C20_CompressIdempotent ==
  [][(last.op = "compressToBuffer" /\ last'.op = "compressToBuffer") =>
       /\ entryList' = entryList
       /\ headerOffset' = headerOffset
       /\ mainHeader'.size = mainHeader.size
       /\ mainHeader'.offset = mainHeader.offset
       /\ last'.ret.length = last.ret.length
       /\ last'.ret = last.ret]_vars

\* compressToBuffer was called twice in a row on a list of two or more
\* entries
C20_Witness ==
  /\ last.op = "compressToBuffer"
  /\ last.arg = 1
  /\ Len(entryList) >= 2
  /\ mainHeader.size > 0
  /\ \E e \in DOMAIN headerOffset : headerOffset[e] > 0

\* the steps toAsyncBuffer takes for one entry, in the order of the claim:
\* progress callback, request, completion, progress callback, the blocks
\* and the header of the entry appended
Cycle ==
  << "onItemStart", "getCompressedDataAsync", "compressedData", "onItemEnd",
     "header.offset", "dataHeaderToBinary", "dataBlock.push", "packHeader",
     "entryHeaders.push" >>

\* the requests among the first i steps that have not completed
Outstanding(events, i) ==
  Cardinality({j \in 1..i : events[j].ev = "getCompressedDataAsync"})
    - Cardinality({j \in 1..i : events[j].ev = "compressedData"})

\* the steps are cycles of one entry each, one after the other; onSuccess
\* comes last, after a whole cycle
Chained(events) ==
  /\ \A i \in 1..Len(events) : Outstanding(events, i) \in {0, 1}
  /\ \A i \in 1..Len(events) :
       LET k == (i - 1) % Len(Cycle)
       IN  IF events[i].ev = "onSuccess"
           THEN i = Len(events) /\ i > 1 /\ k = 0
           ELSE /\ events[i].ev = Cycle[k + 1]
                /\ events[i].entry = events[i - k].entry

\* the entries of the cycles that are complete
CycleEntries(events) ==
  [k \in 1..(Len(events) \div Len(Cycle)) |->
     events[(k - 1) * Len(Cycle) + 1].entry]

\* C14: a toAsyncBuffer call is a sequential chain: at most one request for
\* compressed data is outstanding, the steps of an entry (onItemStart,
\* request, completion, onItemEnd, blocks appended) are over before
\* onItemStart of the next entry, and onSuccess is called only after the
\* blocks of the last entry are appended.
C14_SequentialChain ==
  /\ \A c \in 1..MaxCalls :
       calls[c].pc = "waiting" =>
         /\ Chained(calls[c].events)
         /\ Outstanding(calls[c].events, Len(calls[c].events)) = 1
         /\ calls[c].events[Len(calls[c].events)]
              = Event("getCompressedDataAsync", calls[c].entry)
         /\ CycleEntries(calls[c].events)
              = EntriesOf(calls[c].entryHeaders, "entryHeader")
  /\ last.op = "onSuccess" =>
       /\ Chained(last.events)
       /\ last.events[Len(last.events)].ev = "onSuccess"
       /\ Outstanding(last.events, Len(last.events)) = 0
       /\ CycleEntries(last.events) = EntriesOf(last.ret.cen, "entryHeader")
       /\ CycleEntries(last.events)
            = EntriesOf(last.ret.data, "compressedData")

\* onSuccess was called after a chain of two or more entries, while another
\* call was waiting
C14_Witness ==
  /\ last.op = "onSuccess"
  /\ Len(last.ret.cen) >= 2
  /\ Len(last.events) > 2 * Len(Cycle)
  /\ InFlight # {}

\* the steps of a serializer call that read or write the header of an entry
HeaderSteps == {"header.offset", "dataHeaderToBinary", "packHeader"}

\* the steps at which the compressed data of an entry is there
CompressionSteps == {"getCompressedData", "compressedData"}

\* every header step of an entry has a compression of that entry before it,
\* one for every time the step was taken
CompressedFirst(events) ==
  \A i \in 1..Len(events) :
    events[i].ev \in HeaderSteps =>
      Cardinality({j \in 1..(i - 1) : /\ events[j].ev \in CompressionSteps
                                      /\ events[j].entry = events[i].entry})
        >= Cardinality({j \in 1..i : /\ events[j].ev = events[i].ev
                                     /\ events[j].entry = events[i].entry})

\* C15: in both serializers the compression of an entry (getCompressedData,
\* or the completion callback of getCompressedDataAsync) has finished
\* before header.offset of the entry is set and before dataHeaderToBinary
\* and packHeader encode its header.
C15_CompressionFirst ==
  /\ \A c \in 1..MaxCalls : CompressedFirst(calls[c].events)
  /\ CompressedFirst(last.events)
  /\ last.op = "compressToBuffer" =>
       \A i \in 1..Len(entryList) :
         \E j, k \in 1..Len(last.events) :
           /\ j < k
           /\ last.events[j] = Event("getCompressedData", entryList[i])
           /\ last.events[k] = Event("packHeader", entryList[i])

\* compressToBuffer has written entries while a toAsyncBuffer call that has
\* written an entry waits for the next one
C15_Witness ==
  /\ last.op = "compressToBuffer"
  /\ Len(last.pre) >= 1
  /\ Len(last.events) > 0
  /\ \E c \in 1..MaxCalls :
       /\ calls[c].pc = "waiting"
       /\ Len(calls[c].events) > Len(Cycle)

\* C12: a container opened from the buffer that compressToBuffer returned
\* for an opened and unchanged container holds entries with the names, the
\* sizes and the CRCs of the entries the first container held, as a
\* multiset: the order may differ.
C12_RoundTrip ==
  (opening.pc = "opened" /\ last.op = "open" /\ last.arg = 1)
    => SameEntries(RecordsOf(entryList), last.pre)

\* a round trip of two entries or more that has changed their order
C12_Witness ==
  /\ opening.pc = "opened"
  /\ last.op = "open"
  /\ last.arg = 1
  /\ Len(entryList) > 1
  /\ RecordsOf(entryList) # last.pre

\* C13: the end record compressToBuffer writes carries, in the header and in
\* the bytes of the output, a totalEntries equal to the length the list had
\* when the call was made, and that is the number of central-directory
\* headers written.
C13_TotalEntriesWritten ==
  last.op = "compressToBuffer"
    => /\ last.ret.end.totalEntries = Len(last.pre)
       /\ readUInt16LE(bufferOf(last.ret), last.ret.endAt + ENDTOT)
            = Len(last.pre)
       /\ Len(last.ret.cen) = Len(last.pre)

====
